---- MODULE Spec2Model ----
(***************************************************************************)
(* Model of arangodb::async_registry::ThreadRegistry                       *)
(* (lib/Async/Registry/thread_registry.h): a per-thread intrusive list of  *)
(* promise records with concurrent mark-for-deletion, iteration under a    *)
(* mutex and manually driven garbage collection.                           *)
(*                                                                         *)
(* Every atomic access and every plain access to shared memory is one      *)
(* step.  Pointers are record indices, NULL is 0.  An access to a field of *)
(* a record whose destroy() has run is undefined behaviour, with three     *)
(* outcomes: the read yields the value last stored (the allocator left the *)
(* memory alone), it yields NULL (the allocator zeroes freed memory), or   *)
(* the process dies (the allocator poisons or unmaps freed memory).        *)
(***************************************************************************)
EXTENDS Integers, Sequences, FiniteSets, TLC

\* ---------------------------------------------------------------- bounds
NumRecords == 2
NumThreads == 2
MaxHolders == 1
\* width in bits of the counter's value type T
TBits == 3
\* calls of BenchmarkCounter::next in a run
MaxCalls == 3

\* nullptr, the address of the registry, the address of another registry, the
\* owning thread, and the largest
\* value of ref_count (size_t, cut to the width of the model's integers).
NULL == 0
This == 1
Other == 2
Owner == 1
SizeMax == 2147483647

Records == 1..NumRecords
Threads == 1..NumThreads

\* enum class State
States == {"Running", "Suspended", "Resolved", "Deleted"}

\* A record that was added to another registry.
Foreign == NumRecords + 1

\* struct Waiter : std::variant<NoWaiter, AsyncWaiter, SyncWaiter>: the
\* alternative and its payload (a void* or a std::thread::id).
NoWaiter == <<"none", "">>
AsyncX == <<"async", "X">>
SyncY == <<"sync", "Y">>
WaiterArgs == {AsyncX, SyncY}

\* SourceLocation::line: the line the record was constructed with and the
\* lines of later update_source_location calls.
InitialLine == 10
LineArgs == {20, 30}

\* A default-constructed AddToAsyncRegistry; the handle of record r is r.
Empty == NULL

\* The record whose handle the mutators are called on.
Observed == CHOOSE r \in Records : \A q \in Records : r <= q

\* A PromiseSnapshot that is not yet filled in.
NoShot ==
  [rec |-> NULL, line |-> NULL, waiter |-> <<"unset", "">>, state |-> "unset",
   seen_lines |-> {}, seen_waiters |-> {}]

VARIABLES
  promise_head,   \* ThreadRegistry::promise_head
  free_head,      \* ThreadRegistry::free_head
  ref_count,      \* ThreadRegistry::ref_count
  mutex,          \* ThreadRegistry::mutex: NULL or the thread that holds it
  deallocated,    \* number of times `delete this` has run
  abort_in,       \* "none", the operation whose ADB_PROD_ASSERT failed, or "crash"
  holders,        \* counted references held from outside (the directory)
  registered,     \* the directory has taken its reference
  allocated,      \* records constructed so far are 1..allocated
  next,           \* PromiseInList::next
  previous,       \* PromiseInList::previous
  next_to_free,   \* PromiseInList::next_to_free
  registry,       \* PromiseInList::registry
  handle,         \* "none" | "held" | "dropped": the handle that owns the record
  destroyCount,   \* how often destroy() has run on the record
  added_by,       \* the thread whose add() inserted the record
  state,          \* Promise::state
  waiter,         \* Promise::waiter
  line,           \* Promise::source_location.line
  waiter_writes,  \* arguments of the set_promise_waiter calls made on the record
  line_writes,    \* arguments of the update_source_location calls made on it
  shot,           \* the PromiseSnapshot each thread's snapshot() is filling in
  last_call,      \* the last id(), or the last call on a handle without record
  pc,             \* position of every thread
  promise,        \* argument `promise` of add / mark_for_deletion
  current,        \* local current_head / current / head
  rm_next,        \* local `next` of remove
  rm_previous,    \* local `previous` of remove
  final,          \* the running garbage_collect was called by decrement_ref_count
  visited,        \* records handed to the callback by the running for_promise
  snap,           \* live list at the acquire-load of the running for_promise
  snap_set,       \* records published and not destroyed at that load
  gc_marked,      \* records whose mark had returned when garbage_collect was called
  gc_before,      \* live list when garbage_collect took the mutex
  gc_chain,       \* records of the chain taken by the exchange
  gc_quiet,       \* no mark_for_deletion was in progress during the call
  collected,      \* records of the chains of the garbage_collect calls that returned
  uaf             \* a field of a destroyed record has been read or written

regVars == <<promise_head, free_head, ref_count, mutex, deallocated, abort_in, holders,
             registered>>
recVars == <<allocated, next, previous, next_to_free, registry, handle, destroyCount, added_by,
             state>>
locVars == <<pc, promise, current, rm_next, rm_previous, final>>
histVars == <<visited, snap, snap_set, gc_marked, gc_before, gc_chain, gc_quiet,
              collected, uaf>>
hdlVars == <<waiter, line, waiter_writes, line_writes, shot, last_call>>
fpHist == <<visited, snap, snap_set>>
gcHist == <<gc_marked, gc_before, gc_chain, gc_quiet, collected>>

VARIABLES
  _mutex,         \* BenchmarkCounter::_mutex: NULL or the thread that holds it
  _value,         \* BenchmarkCounter::_value
  _maxValue,      \* BenchmarkCounter::_maxValue
  _done,          \* BenchmarkCounter::_done
  _runUntil,      \* BenchmarkCounter::_runUntil: 0 or a deadline
  initialValue,   \* the constructor's argument initialValue
  npc,            \* position of every thread inside next
  value,          \* argument `value` of next
  realValue,      \* local realValue of next
  oldValue,       \* local oldValue of next
  returned,       \* what the last call of next that returned has returned
  handed,         \* sum of what the calls of next have returned
  calls           \* calls of next made so far

ctrVars == <<_mutex, _value, _maxValue, _done, _runUntil, initialValue, npc, value, realValue,
             oldValue, returned, handed, calls>>
vars == <<regVars, recVars, hdlVars, locVars, histVars, ctrVars>>

\* ------------------------------------------------------------- helpers
Destroyed(r) == r \in Records /\ destroyCount[r] > 0

\* promise->registry
RegistryOf(r) == IF r = Foreign THEN Other ELSE registry[r]

\* The values a read of field f of record r can yield.
Rd(f, r) == IF Destroyed(r) THEN {f[r], NULL} ELSE {f[r]}

\* The chain from pointer p following field f, cut after n records.
RECURSIVE Chain(_, _, _)
Chain(f, p, n) ==
  IF p = NULL \/ n = 0 THEN <<>> ELSE <<p>> \o Chain(f, f[p], n - 1)

LiveList == Chain(next, promise_head, NumRecords + 1)
FreeList == Chain(next_to_free, free_head, NumRecords + 1)

Range(s) == {s[i] : i \in 1..Len(s)}

MarkPcs == {"mark_load", "mark_set", "mark_cas", "mark_dec"}
AddPcs == {"add_load", "add_next", "add_previous", "add_store", "add_inc"}
WalkPcs == {"fp_load", "fp_walk"}
GcLockedPcs == {"gc_loop", "gc_unlink", "gc_fixnext", "gc_destroy", "gc_advance"}
GcPcs == {"gc_assert", "gc_exchange", "gc_lock"} \cup GcLockedPcs

\* mark_for_deletion(r) has been called and has returned.
MarkReturned(r) == handle[r] = "dropped" /\ \A t \in Threads : promise[t] # r

MarkInProgress == \E t \in Threads : pc[t] \in MarkPcs

aborted == abort_in # "none"

\* Steps are taken while the process is alive and the registry is allocated.
Running == ~aborted /\ deallocated = 0

\* The owner thread and the inspectors use the registry while the directory
\* (or an inspector) holds a counted reference to it.
InUse == holders > 0

\* The last outside reference is given up by the owner thread's finalizer
\* or after it: the owner thread is not inside a call and makes none later.
MayRelease == holders > 1 \/ pc[Owner] = "idle"

\* The directory takes the first reference right after make(); further
\* references are taken from an existing one.
MayAcquire == IF registered THEN holders > 0 /\ holders < MaxHolders ELSE TRUE

\* The store (1) of add(r) has run.
Published(r) ==
  handle[r] # "none" \/ \E t \in Threads : promise[t] = r /\ pc[t] = "add_inc"

\* ----------------------------------------------------- BenchmarkCounter
\* The values of the counter's type T, an unsigned integer of TBits bits.
TMod == 2 ^ TBits
T == 0 .. TMod - 1
Plus(a, b) == (a + b) % TMod
Minus(a, b) == (a + TMod - b) % TMod

\* _runUntil is 0.0 or the time at which the run ends.
RunUntilArgs == {0, 1}

\* BenchmarkCounter(initialValue, maxValue, runUntil)
BenchmarkCounter(i, m, u) ==
  /\ _mutex = NULL
  /\ _value = i
  /\ _maxValue = m
  /\ _done = 0
  /\ _runUntil = u
  /\ initialValue = i
  /\ npc = [t \in Threads |-> "idle"]
  /\ value = [t \in Threads |-> 0]
  /\ realValue = [t \in Threads |-> 0]
  /\ oldValue = [t \in Threads |-> 0]
  /\ returned = 0
  /\ handed = 0
  /\ calls = 0

\* next(v) is called: T realValue = value; if (value == 0) realValue = 1;
NextEnter(t, v) ==
  /\ npc[t] = "idle" /\ calls < MaxCalls
  /\ calls' = calls + 1
  /\ value' = [value EXCEPT ![t] = v]
  /\ realValue' = [realValue EXCEPT ![t] = IF v = 0 THEN 1 ELSE v]
  /\ npc' = [npc EXCEPT ![t] = "next_lock"]
  /\ UNCHANGED <<regVars, recVars, hdlVars, locVars, histVars, _mutex, _value, _maxValue,
                 _done, _runUntil, initialValue, oldValue, returned, handed>>

\* std::lock_guard mutexLocker{this->_mutex}
NextLock(t) ==
  /\ npc[t] = "next_lock"
  /\ _mutex = NULL
  /\ _mutex' = t
  /\ npc' = [npc EXCEPT ![t] = "next_load"]
  /\ UNCHANGED <<regVars, recVars, hdlVars, locVars, histVars, _value, _maxValue, _done,
                 _runUntil, initialValue, value, realValue, oldValue, returned, handed, calls>>

\* T oldValue = _value
NextLoad(t) ==
  /\ npc[t] = "next_load"
  /\ oldValue' = [oldValue EXCEPT ![t] = _value]
  /\ npc' = [npc EXCEPT ![t] = "next_test"]
  /\ UNCHANGED <<regVars, recVars, hdlVars, locVars, histVars, _mutex, _value, _maxValue,
                 _done, _runUntil, initialValue, value, realValue, returned, handed, calls>>

\* The call returns ret with _value and _done set as given; the guard
\* releases the mutex.
NextLeave(t, ret, val, dn) ==
  /\ _value' = val
  /\ _done' = dn
  /\ returned' = ret
  /\ handed' = handed + ret
  /\ _mutex' = NULL
  /\ npc' = [npc EXCEPT ![t] = "idle"]
  /\ value' = [value EXCEPT ![t] = 0]
  /\ realValue' = [realValue EXCEPT ![t] = 0]
  /\ oldValue' = [oldValue EXCEPT ![t] = 0]

\* the branches of next and its return; expired is the outcome of
\* _runUntil - TRI_microtime() <= 0.0
NextReturn(t, expired) ==
  /\ npc[t] = "next_test"
  /\ IF _runUntil # 0
       THEN IF expired
              THEN NextLeave(t, 0, _maxValue, _maxValue)
              ELSE NextLeave(t, realValue[t], Plus(_value, realValue[t]), _done)
       ELSE /\ ~expired
            /\ IF Plus(oldValue[t], realValue[t]) > _maxValue
                 THEN NextLeave(t, Minus(_maxValue, oldValue[t]), _maxValue, _done)
                 ELSE NextLeave(t, realValue[t], Plus(_value, realValue[t]), _done)
  /\ UNCHANGED <<regVars, recVars, hdlVars, locVars, histVars, _maxValue, _runUntil,
                 initialValue, calls>>

\* ---------------------------------------------------------------- Init
\* A registry after make().
RegistryInit ==
  /\ promise_head = NULL
  /\ free_head = NULL
  /\ ref_count = 0
  /\ mutex = NULL
  /\ deallocated = 0
  /\ abort_in = "none"
  /\ holders = 0
  /\ registered = FALSE
  /\ allocated = 0
  /\ next = [r \in Records |-> NULL]
  /\ previous = [r \in Records |-> NULL]
  /\ next_to_free = [r \in Records |-> NULL]
  /\ registry = [r \in Records |-> NULL]
  /\ handle = [r \in Records |-> "none"]
  /\ destroyCount = [r \in Records |-> 0]
  /\ added_by = [r \in Records |-> NULL]
  /\ state = [r \in Records |-> "Running"]
  /\ waiter = [r \in Records |-> NoWaiter]
  /\ line = [r \in Records |-> InitialLine]
  /\ waiter_writes = [r \in Records |-> {}]
  /\ line_writes = [r \in Records |-> {}]
  /\ shot = [t \in Threads |-> NoShot]
  /\ last_call = <<"none", Empty, NULL>>
  /\ pc = [t \in Threads |-> "idle"]
  /\ promise = [t \in Threads |-> NULL]
  /\ current = [t \in Threads |-> NULL]
  /\ rm_next = [t \in Threads |-> NULL]
  /\ rm_previous = [t \in Threads |-> NULL]
  /\ final = [t \in Threads |-> FALSE]
  /\ visited = [t \in Threads |-> <<>>]
  /\ snap = [t \in Threads |-> <<>>]
  /\ snap_set = [t \in Threads |-> {}]
  /\ gc_marked = [t \in Threads |-> {}]
  /\ gc_before = [t \in Threads |-> <<>>]
  /\ gc_chain = [t \in Threads |-> {}]
  /\ gc_quiet = [t \in Threads |-> TRUE]
  /\ collected = {}
  /\ uaf = FALSE

Init == RegistryInit /\ BenchmarkCounter(0, 0, 0)

\* A registry after make() and a counter after its constructor.
CounterInit ==
  /\ RegistryInit
  /\ \E i \in T, m \in T, u \in RunUntilArgs : BenchmarkCounter(i, m, u)

\* ----------------------------------------------------------------- add
\* Mutant: the assertion of add is missing.
AddAllowedAnywhere(t) == TRUE

\* ADB_PROD_ASSERT(std::this_thread::get_id() == owning_thread)
AddAllowed(t) == t = Owner

AddAssert(t) ==
  /\ Running /\ pc[t] = "idle" /\ InUse /\ allocated < NumRecords
  /\ IF AddAllowed(t)
       THEN /\ allocated' = allocated + 1
            /\ promise' = [promise EXCEPT ![t] = allocated + 1]
            /\ added_by' = [added_by EXCEPT ![allocated + 1] = t]
            /\ pc' = [pc EXCEPT ![t] = "add_load"]
            /\ UNCHANGED abort_in
       ELSE /\ abort_in' = "add"
            /\ UNCHANGED <<allocated, promise, added_by, pc>>
  /\ UNCHANGED <<state, hdlVars, ctrVars, promise_head, free_head, ref_count, mutex, deallocated, holders, registered,
                 next, previous, next_to_free, registry, handle, destroyCount,
                 current, rm_next, rm_previous, final, histVars>>

\* Mutant: the new record is published before its next pointer is set.
AddLoadHeadPublishesEarly(t) ==
  /\ Running /\ pc[t] = "add_load"
  /\ current' = [current EXCEPT ![t] = promise_head]
  /\ promise_head' = promise[t]
  /\ pc' = [pc EXCEPT ![t] = "add_next"]
  /\ UNCHANGED <<free_head, ref_count, mutex, deallocated, abort_in, holders,
                 registered, recVars, hdlVars, ctrVars, promise, rm_next, rm_previous, final, histVars>>

\* auto current_head = promise_head.load(relaxed)
AddLoadHead(t) ==
  /\ Running /\ pc[t] = "add_load"
  /\ current' = [current EXCEPT ![t] = promise_head]
  /\ pc' = [pc EXCEPT ![t] = "add_next"]
  /\ UNCHANGED <<regVars, recVars, hdlVars, ctrVars, promise, rm_next, rm_previous, final, histVars>>

\* Mutant: the new record is not linked in front of the old head.
AddSetNextDropsTail(t) ==
  /\ Running /\ pc[t] = "add_next"
  /\ registry' = [registry EXCEPT ![promise[t]] = This]
  /\ pc' = [pc EXCEPT ![t] = "add_previous"]
  /\ UNCHANGED <<state, hdlVars, ctrVars, regVars, allocated, next, previous, next_to_free, handle,
                 destroyCount, added_by, promise, current, rm_next, rm_previous,
                 final, histVars>>

\* promise->next = current_head; promise->registry = this
AddSetNext(t) ==
  /\ Running /\ pc[t] = "add_next"
  /\ next' = [next EXCEPT ![promise[t]] = current[t]]
  /\ registry' = [registry EXCEPT ![promise[t]] = This]
  /\ pc' = [pc EXCEPT ![t] = "add_previous"]
  /\ uaf' = (uaf \/ Destroyed(promise[t]))
  /\ UNCHANGED <<state, hdlVars, ctrVars, regVars, allocated, previous, next_to_free, handle, destroyCount,
                 added_by, promise, current, rm_next, rm_previous, final,
                 fpHist, gcHist>>

\* Mutant: add writes the forward pointer of the old head.
AddSetPreviousAsNext(t) ==
  /\ Running /\ pc[t] = "add_previous"
  /\ IF current[t] # NULL
       THEN /\ next' = [next EXCEPT ![current[t]] = promise[t]]
            /\ uaf' = (uaf \/ Destroyed(current[t]))
       ELSE UNCHANGED <<next, uaf>>
  /\ pc' = [pc EXCEPT ![t] = "add_store"]
  /\ UNCHANGED <<state, hdlVars, ctrVars, regVars, allocated, previous, next_to_free, registry, handle,
                 destroyCount, added_by, promise, current, rm_next, rm_previous,
                 final, fpHist, gcHist>>

\* if (current_head != nullptr) current_head->previous = promise
AddSetPrevious(t) ==
  /\ Running /\ pc[t] = "add_previous"
  /\ IF current[t] # NULL
       THEN /\ previous' = [previous EXCEPT ![current[t]] = promise[t]]
            /\ uaf' = (uaf \/ Destroyed(current[t]))
       ELSE UNCHANGED <<previous, uaf>>
  /\ pc' = [pc EXCEPT ![t] = "add_store"]
  /\ UNCHANGED <<state, hdlVars, ctrVars, regVars, allocated, next, next_to_free, registry, handle,
                 destroyCount, added_by, promise, current, rm_next, rm_previous,
                 final, fpHist, gcHist>>

\* Mutant: add publishes the record only while the mutex is free.
AddStoreHeadLocked(t) ==
  /\ Running /\ pc[t] = "add_store" /\ mutex = NULL
  /\ promise_head' = promise[t]
  /\ pc' = [pc EXCEPT ![t] = "add_inc"]
  /\ UNCHANGED <<free_head, ref_count, mutex, deallocated, abort_in, holders, registered,
                 recVars, hdlVars, ctrVars, promise, current, rm_next, rm_previous, final, histVars>>

\* (1) promise_head.store(promise, release)
AddStoreHead(t) ==
  /\ Running /\ pc[t] = "add_store"
  /\ promise_head' = promise[t]
  /\ pc' = [pc EXCEPT ![t] = "add_inc"]
  /\ UNCHANGED <<free_head, ref_count, mutex, deallocated, abort_in, holders, registered,
                 recVars, hdlVars, ctrVars, promise, current, rm_next, rm_previous, final, histVars>>

FetchAdd(v) == IF v = SizeMax THEN 0 ELSE v + 1
FetchSub(v) == IF v = 0 THEN SizeMax ELSE v - 1

\* Mutant: add does not count the new record.
AddIncrementSkipped(t) ==
  /\ Running /\ pc[t] = "add_inc"
  /\ ref_count' = ref_count
  /\ handle' = [handle EXCEPT ![promise[t]] = "held"]
  /\ pc' = [pc EXCEPT ![t] = "idle"]
  /\ promise' = [promise EXCEPT ![t] = NULL]
  /\ current' = [current EXCEPT ![t] = NULL]
  /\ UNCHANGED <<state, hdlVars, ctrVars, promise_head, free_head, mutex, deallocated, abort_in, holders, registered,
                 allocated, next, previous, next_to_free, registry, destroyCount,
                 added_by, rm_next, rm_previous, final, histVars>>

\* increment_ref_count(); add returns and the caller holds the handle
AddIncrement(t) ==
  /\ Running /\ pc[t] = "add_inc"
  /\ ref_count' = FetchAdd(ref_count)
  /\ handle' = [handle EXCEPT ![promise[t]] = "held"]
  /\ pc' = [pc EXCEPT ![t] = "idle"]
  /\ promise' = [promise EXCEPT ![t] = NULL]
  /\ current' = [current EXCEPT ![t] = NULL]
  /\ UNCHANGED <<state, hdlVars, ctrVars, promise_head, free_head, mutex, deallocated, abort_in, holders, registered,
                 allocated, next, previous, next_to_free, registry, destroyCount,
                 added_by, rm_next, rm_previous, final, histVars>>

\* --------------------------------------------------- mark_for_deletion
\* Mutant: the assertion of mark_for_deletion is missing.
MarkAllowedAlways(r) == TRUE

\* ADB_PROD_ASSERT(promise->registry == this)
MarkAllowed(r) == RegistryOf(r) = This

\* mark_for_deletion(r) is called (the handle is given up) and asserts
MarkAssert(t, r) ==
  /\ Running /\ pc[t] = "idle"
  /\ IF r = Foreign THEN TRUE ELSE handle[r] = "held"
  /\ handle' = IF r \in Records THEN [handle EXCEPT ![r] = "dropped"] ELSE handle
  /\ uaf' = (uaf \/ Destroyed(r))
  /\ gc_quiet' = [u \in Threads |-> gc_quiet[u] /\ pc[u] \notin GcPcs]
  /\ promise' = [promise EXCEPT ![t] = r]
  /\ \E ok \in (IF Destroyed(r) THEN BOOLEAN ELSE {MarkAllowed(r)}) :
       IF ok
         THEN /\ pc' = [pc EXCEPT ![t] = "mark_load"]
              /\ UNCHANGED abort_in
         ELSE /\ abort_in' = "mark_for_deletion"
              /\ UNCHANGED pc
  /\ UNCHANGED <<state, hdlVars, ctrVars, promise_head, free_head, ref_count, mutex, deallocated, holders, registered,
                 allocated, next, previous, next_to_free, registry, destroyCount,
                 added_by, current, rm_next, rm_previous, final, fpHist,
                 gc_marked, gc_before, gc_chain, collected>>

\* Mutant: mark_for_deletion takes the free list to be empty instead of
\* loading its head.
MarkLoadFreeAssumesEmpty(t) ==
  /\ Running /\ pc[t] = "mark_load"
  /\ current' = [current EXCEPT ![t] = NULL]
  /\ pc' = [pc EXCEPT ![t] = "mark_set"]
  /\ UNCHANGED <<regVars, recVars, hdlVars, ctrVars, promise, rm_next, rm_previous, final, histVars>>

\* auto current_head = free_head.load(relaxed)
MarkLoadFree(t) ==
  /\ Running /\ pc[t] = "mark_load"
  /\ current' = [current EXCEPT ![t] = free_head]
  /\ pc' = [pc EXCEPT ![t] = "mark_set"]
  /\ UNCHANGED <<regVars, recVars, hdlVars, ctrVars, promise, rm_next, rm_previous, final, histVars>>

\* promise->next_to_free = current_head
MarkSetNextToFree(t) ==
  /\ Running /\ pc[t] = "mark_set"
  /\ next_to_free' = [next_to_free EXCEPT ![promise[t]] = current[t]]
  /\ uaf' = (uaf \/ Destroyed(promise[t]))
  /\ pc' = [pc EXCEPT ![t] = "mark_cas"]
  /\ UNCHANGED <<state, hdlVars, ctrVars, regVars, allocated, next, previous, registry, handle, destroyCount,
                 added_by, promise, current, rm_next, rm_previous, final, fpHist,
                 gcHist>>

\* (4) free_head.compare_exchange_weak(current_head, promise): success
MarkCasSuccess(t) ==
  /\ Running /\ pc[t] = "mark_cas"
  /\ free_head = current[t]
  /\ free_head' = promise[t]
  /\ pc' = [pc EXCEPT ![t] = "mark_dec"]
  /\ current' = [current EXCEPT ![t] = NULL]
  /\ UNCHANGED <<promise_head, ref_count, mutex, deallocated, abort_in, holders, registered,
                 recVars, hdlVars, ctrVars, promise, rm_next, rm_previous, final, histVars>>

\* Mutant: the decrement is inside the loop, so a failed compare-exchange
\* gives up a reference too.
MarkCasFailDecrements(t) ==
  /\ Running /\ pc[t] = "mark_cas"
  /\ current' = [current EXCEPT ![t] = free_head]
  /\ ref_count' = FetchSub(ref_count)
  /\ pc' = [pc EXCEPT ![t] = "mark_set"]
  /\ UNCHANGED <<promise_head, free_head, mutex, deallocated, abort_in, holders, registered,
                 recVars, hdlVars, ctrVars, promise, rm_next, rm_previous, final, histVars>>

\* (4) failure, spurious or not: current_head is reloaded and the loop repeats
MarkCasFail(t) ==
  /\ Running /\ pc[t] = "mark_cas"
  /\ current' = [current EXCEPT ![t] = free_head]
  /\ pc' = [pc EXCEPT ![t] = "mark_set"]
  /\ UNCHANGED <<regVars, recVars, hdlVars, ctrVars, promise, rm_next, rm_previous, final, histVars>>

\* ------------------------------------------------- decrement_ref_count
\* Mutant: the teardown also starts when the count goes from 2 to 1.
FetchSubAndTestEarly(t) ==
  /\ ref_count' = FetchSub(ref_count)
  /\ IF ref_count \in {1, 2}
       THEN /\ pc' = [pc EXCEPT ![t] = "gc_assert"]
            /\ final' = [final EXCEPT ![t] = TRUE]
            /\ UNCHANGED promise
       ELSE /\ pc' = [pc EXCEPT ![t] = "idle"]
            /\ promise' = [promise EXCEPT ![t] = NULL]
            /\ UNCHANGED final

\* old = ref_count.fetch_sub(1); if (old == 1) { garbage_collect(); delete this; }
FetchSubAndTest(t) ==
  /\ ref_count' = FetchSub(ref_count)
  /\ IF ref_count = 1
       THEN /\ pc' = [pc EXCEPT ![t] = "gc_assert"]
            /\ final' = [final EXCEPT ![t] = TRUE]
            /\ UNCHANGED promise
       ELSE /\ pc' = [pc EXCEPT ![t] = "idle"]
            /\ promise' = [promise EXCEPT ![t] = NULL]
            /\ UNCHANGED final

\* decrement_ref_count() at the end of mark_for_deletion
MarkDecrement(t) ==
  /\ Running /\ pc[t] = "mark_dec"
  /\ FetchSubAndTest(t)
  /\ UNCHANGED <<promise_head, free_head, mutex, deallocated, abort_in, holders, registered,
                 recVars, hdlVars, ctrVars, current, rm_next, rm_previous, histVars>>

\* decrement_ref_count() by an outside holder of a counted reference
DecrementRef(t) ==
  /\ Running /\ pc[t] = "idle" /\ holders > 0 /\ MayRelease
  /\ holders' = holders - 1
  /\ FetchSubAndTest(t)
  /\ UNCHANGED <<promise_head, free_head, mutex, deallocated, abort_in, registered,
                 recVars, hdlVars, ctrVars, current, rm_next, rm_previous, histVars>>

\* Mutant: the outside holder takes its reference without counting it.
IncrementRefUncounted(t) ==
  /\ Running /\ pc[t] = "idle" /\ MayAcquire
  /\ holders' = holders + 1
  /\ registered' = TRUE
  /\ UNCHANGED <<promise_head, free_head, ref_count, mutex, deallocated, abort_in,
                 recVars, hdlVars, ctrVars, locVars, histVars>>

\* increment_ref_count() by an outside holder
IncrementRef(t) ==
  /\ Running /\ pc[t] = "idle" /\ MayAcquire
  /\ holders' = holders + 1
  /\ registered' = TRUE
  /\ ref_count' = FetchAdd(ref_count)
  /\ UNCHANGED <<promise_head, free_head, mutex, deallocated, abort_in,
                 recVars, hdlVars, ctrVars, locVars, histVars>>

\* ----------------------------------------------------- garbage_collect
\* Mutant: the thread test in the assertion of garbage_collect is inverted.
GcAllowedOffOwner(t) == ref_count = 0 \/ t # Owner

\* Mutant: the test of ref_count in the assertion of garbage_collect is inverted.
GcAllowedWhileReferenced(t) == ref_count # 0 \/ t = Owner

\* Mutant: the assertion of garbage_collect is missing.
GcAllowedAlways(t) == TRUE

\* ADB_PROD_ASSERT(ref_count == 0 || std::this_thread::get_id() == owning_thread)
GcAllowed(t) == ref_count = 0 \/ t = Owner

\* garbage_collect() is entered, by a direct call or from decrement_ref_count
GcAssert(t) ==
  /\ Running
  /\ \/ pc[t] = "idle" /\ InUse
     \/ pc[t] = "gc_assert"
  /\ IF GcAllowed(t)
       THEN /\ pc' = [pc EXCEPT ![t] = "gc_exchange"]
            /\ gc_marked' = [gc_marked EXCEPT ![t] =
                   {r \in Records : MarkReturned(r) /\ ~Destroyed(r)}]
            /\ gc_quiet' = [gc_quiet EXCEPT ![t] = ~MarkInProgress]
            /\ UNCHANGED abort_in
       ELSE /\ abort_in' = "garbage_collect"
            /\ UNCHANGED <<pc, gc_marked, gc_quiet>>
  /\ UNCHANGED <<promise_head, free_head, ref_count, mutex, deallocated, holders, registered,
                 recVars, hdlVars, ctrVars, promise, current, rm_next, rm_previous, final, fpHist,
                 gc_before, gc_chain, collected, uaf>>

\* Mutant: the exchange takes the whole chain but stores back the second
\* record of the free list instead of nullptr.
GcExchangePopsOne(t) ==
  /\ Running /\ pc[t] = "gc_exchange"
  /\ current' = [current EXCEPT ![t] = free_head]
  /\ free_head' = IF free_head = NULL THEN NULL ELSE next_to_free[free_head]
  /\ gc_chain' = [gc_chain EXCEPT ![t] = Range(FreeList)]
  /\ pc' = [pc EXCEPT ![t] = "gc_lock"]
  /\ UNCHANGED <<promise_head, ref_count, mutex, deallocated, abort_in, holders, registered,
                 recVars, hdlVars, ctrVars, promise, rm_next, rm_previous, final, fpHist,
                 gc_marked, gc_before, gc_quiet, collected, uaf>>

\* Mutant: free_head is loaded and not reset.
GcExchangeKeepsHead(t) ==
  /\ Running /\ pc[t] = "gc_exchange"
  /\ current' = [current EXCEPT ![t] = free_head]
  /\ free_head' = free_head
  /\ gc_chain' = [gc_chain EXCEPT ![t] = Range(FreeList)]
  /\ pc' = [pc EXCEPT ![t] = "gc_lock"]
  /\ UNCHANGED <<promise_head, ref_count, mutex, deallocated, abort_in, holders, registered,
                 recVars, hdlVars, ctrVars, promise, rm_next, rm_previous, final, fpHist,
                 gc_marked, gc_before, gc_quiet, collected, uaf>>

\* (5) auto head = free_head.exchange(nullptr, acquire)
GcExchange(t) ==
  /\ Running /\ pc[t] = "gc_exchange"
  /\ current' = [current EXCEPT ![t] = free_head]
  /\ free_head' = NULL
  /\ gc_chain' = [gc_chain EXCEPT ![t] = Range(FreeList)]
  /\ pc' = [pc EXCEPT ![t] = "gc_lock"]
  /\ UNCHANGED <<promise_head, ref_count, mutex, deallocated, abort_in, holders, registered,
                 recVars, hdlVars, ctrVars, promise, rm_next, rm_previous, final, fpHist,
                 gc_marked, gc_before, gc_quiet, collected, uaf>>

\* Mutant: garbage_collect does not wait for the mutex.
GcLockNoWait(t) ==
  /\ Running /\ pc[t] = "gc_lock"
  /\ gc_before' = [gc_before EXCEPT ![t] = LiveList]
  /\ pc' = [pc EXCEPT ![t] = "gc_loop"]
  /\ UNCHANGED <<regVars, recVars, hdlVars, ctrVars, promise, current, rm_next, rm_previous, final,
                 fpHist, gc_marked, gc_chain, gc_quiet, collected, uaf>>

\* auto guard = std::lock_guard(mutex)
GcLock(t) ==
  /\ Running /\ pc[t] = "gc_lock"
  /\ mutex = NULL
  /\ mutex' = t
  /\ gc_before' = [gc_before EXCEPT ![t] = LiveList]
  /\ pc' = [pc EXCEPT ![t] = "gc_loop"]
  /\ UNCHANGED <<promise_head, free_head, ref_count, deallocated, abort_in, holders, registered,
                 recVars, hdlVars, ctrVars, promise, current, rm_next, rm_previous, final, fpHist,
                 gc_marked, gc_chain, gc_quiet, collected, uaf>>

\* remove(current): auto next = promise->next; auto previous = promise->previous
RemoveLoad(t) ==
  /\ Running /\ pc[t] = "gc_loop" /\ current[t] # NULL
  /\ \E n \in Rd(next, current[t]), p \in Rd(previous, current[t]) :
       /\ rm_next' = [rm_next EXCEPT ![t] = n]
       /\ rm_previous' = [rm_previous EXCEPT ![t] = p]
  /\ uaf' = (uaf \/ Destroyed(current[t]))
  /\ pc' = [pc EXCEPT ![t] = "gc_unlink"]
  /\ UNCHANGED <<regVars, recVars, hdlVars, ctrVars, promise, current, final, fpHist, gcHist>>

\* Mutant: remove unlinks only the head; a record with a predecessor stays
\* linked.
RemoveUnlinkHeadOnly(t) ==
  /\ Running /\ pc[t] = "gc_unlink"
  /\ IF rm_previous[t] = NULL
       THEN promise_head' = rm_next[t]
       ELSE UNCHANGED promise_head
  /\ UNCHANGED <<next, uaf>>
  /\ pc' = [pc EXCEPT ![t] = "gc_fixnext"]
  /\ UNCHANGED <<state, hdlVars, ctrVars, free_head, ref_count, mutex, deallocated, abort_in, holders,
                 registered, allocated, previous, next_to_free, registry, handle,
                 destroyCount, added_by, promise, current, rm_next, rm_previous, final,
                 fpHist, gcHist>>

\* Mutant: remove always stores next as the head, whatever previous is.
RemoveUnlinkAlwaysHead(t) ==
  /\ Running /\ pc[t] = "gc_unlink"
  /\ promise_head' = rm_next[t]
  /\ UNCHANGED <<next, uaf>>
  /\ pc' = [pc EXCEPT ![t] = "gc_fixnext"]
  /\ UNCHANGED <<state, hdlVars, ctrVars, free_head, ref_count, mutex, deallocated, abort_in, holders, registered,
                 allocated, previous, next_to_free, registry, handle, destroyCount,
                 added_by, promise, current, rm_next, rm_previous, final, fpHist,
                 gcHist>>

\* if (previous == nullptr) (3) promise_head.store(next) else previous->next = next
RemoveUnlink(t) ==
  /\ Running /\ pc[t] = "gc_unlink"
  /\ IF rm_previous[t] = NULL
       THEN /\ promise_head' = rm_next[t]
            /\ UNCHANGED <<next, uaf>>
       ELSE /\ next' = [next EXCEPT ![rm_previous[t]] = rm_next[t]]
            /\ uaf' = (uaf \/ Destroyed(rm_previous[t]))
            /\ UNCHANGED promise_head
  /\ pc' = [pc EXCEPT ![t] = "gc_fixnext"]
  /\ UNCHANGED <<state, hdlVars, ctrVars, free_head, ref_count, mutex, deallocated, abort_in, holders, registered,
                 allocated, previous, next_to_free, registry, handle, destroyCount,
                 added_by, promise, current, rm_next, rm_previous, final, fpHist,
                 gcHist>>

\* Mutant: remove leaves the back-pointer of the successor alone.
RemoveFixNextSkipped(t) ==
  /\ Running /\ pc[t] = "gc_fixnext"
  /\ IF rm_next[t] # NULL
       THEN /\ previous' = previous
            /\ uaf' = (uaf \/ Destroyed(rm_next[t]))
       ELSE UNCHANGED <<previous, uaf>>
  /\ pc' = [pc EXCEPT ![t] = "gc_destroy"]
  /\ rm_next' = [rm_next EXCEPT ![t] = NULL]
  /\ rm_previous' = [rm_previous EXCEPT ![t] = NULL]
  /\ UNCHANGED <<state, hdlVars, ctrVars, regVars, allocated, next, next_to_free, registry, handle,
                 destroyCount, added_by, promise, current, final, fpHist, gcHist>>

\* Mutant: the successor's previous is left pointing at the removed record.
RemoveFixNextToRemoved(t) ==
  /\ Running /\ pc[t] = "gc_fixnext"
  /\ IF rm_next[t] # NULL
       THEN /\ previous' = [previous EXCEPT ![rm_next[t]] = current[t]]
            /\ uaf' = (uaf \/ Destroyed(rm_next[t]))
       ELSE UNCHANGED <<previous, uaf>>
  /\ pc' = [pc EXCEPT ![t] = "gc_destroy"]
  /\ rm_next' = [rm_next EXCEPT ![t] = NULL]
  /\ rm_previous' = [rm_previous EXCEPT ![t] = NULL]
  /\ UNCHANGED <<state, hdlVars, ctrVars, regVars, allocated, next, next_to_free, registry, handle,
                 destroyCount, added_by, promise, current, final, fpHist, gcHist>>

\* if (next != nullptr) next->previous = previous
RemoveFixNext(t) ==
  /\ Running /\ pc[t] = "gc_fixnext"
  /\ IF rm_next[t] # NULL
       THEN /\ previous' = [previous EXCEPT ![rm_next[t]] = rm_previous[t]]
            /\ uaf' = (uaf \/ Destroyed(rm_next[t]))
       ELSE UNCHANGED <<previous, uaf>>
  /\ pc' = [pc EXCEPT ![t] = "gc_destroy"]
  /\ rm_next' = [rm_next EXCEPT ![t] = NULL]
  /\ rm_previous' = [rm_previous EXCEPT ![t] = NULL]
  /\ UNCHANGED <<state, hdlVars, ctrVars, regVars, allocated, next, next_to_free, registry, handle,
                 destroyCount, added_by, promise, current, final, fpHist, gcHist>>

\* current->destroy()
GcDestroy(t) ==
  /\ Running /\ pc[t] = "gc_destroy"
  /\ destroyCount' = [destroyCount EXCEPT ![current[t]] = IF @ < 2 THEN @ + 1 ELSE @]
  /\ pc' = [pc EXCEPT ![t] = "gc_advance"]
  /\ UNCHANGED <<state, hdlVars, ctrVars, regVars, allocated, next, previous, next_to_free, registry, handle,
                 added_by, promise, current, rm_next, rm_previous, final, histVars>>

\* the loop's increment: current = current->next_to_free, after destroy()
GcAdvance(t) ==
  /\ Running /\ pc[t] = "gc_advance"
  /\ \E n \in Rd(next_to_free, current[t]) :
       current' = [current EXCEPT ![t] = n]
  /\ uaf' = (uaf \/ Destroyed(current[t]))
  /\ pc' = [pc EXCEPT ![t] = "gc_loop"]
  /\ UNCHANGED <<regVars, recVars, hdlVars, ctrVars, promise, rm_next, rm_previous, final, fpHist,
                 gcHist>>

\* the loop ends: the guard releases the mutex and garbage_collect returns
GcUnlock(t) ==
  /\ Running /\ pc[t] = "gc_loop" /\ current[t] = NULL
  /\ mutex' = NULL
  /\ pc' = [pc EXCEPT ![t] = IF final[t] THEN "delete" ELSE "idle"]
  /\ gc_marked' = [gc_marked EXCEPT ![t] = {}]
  /\ gc_before' = [gc_before EXCEPT ![t] = <<>>]
  /\ gc_chain' = [gc_chain EXCEPT ![t] = {}]
  /\ gc_quiet' = [gc_quiet EXCEPT ![t] = TRUE]
  /\ collected' = collected \cup gc_chain[t]
  /\ UNCHANGED <<promise_head, free_head, ref_count, deallocated, abort_in, holders, registered,
                 recVars, hdlVars, ctrVars, promise, current, rm_next, rm_previous, final, fpHist, uaf>>

\* delete this, after the garbage_collect of decrement_ref_count
Delete(t) ==
  /\ ~aborted /\ pc[t] = "delete"
  /\ deallocated' = IF deallocated < 2 THEN deallocated + 1 ELSE deallocated
  /\ pc' = [pc EXCEPT ![t] = "idle"]
  /\ promise' = [promise EXCEPT ![t] = NULL]
  /\ final' = [final EXCEPT ![t] = FALSE]
  /\ UNCHANGED <<promise_head, free_head, ref_count, mutex, abort_in, holders, registered,
                 recVars, hdlVars, ctrVars, current, rm_next, rm_previous, histVars>>

\* The record whose fields the next step of thread t reads or writes.
AccessTargets(t) ==
  CASE pc[t] \in {"add_next", "mark_set"} -> {promise[t]}
    [] pc[t] \in {"add_previous", "gc_loop", "gc_advance", "fp_walk"} -> {current[t]}
    [] pc[t] = "gc_unlink" -> {rm_previous[t]}
    [] pc[t] = "gc_fixnext" -> {rm_next[t]}
    [] OTHER -> {}

\* an access to a destroyed record hits poisoned or unmapped memory
Crash(t) ==
  /\ Running
  /\ \E r \in AccessTargets(t) : Destroyed(r)
  /\ abort_in' = "crash"
  /\ UNCHANGED <<promise_head, free_head, ref_count, mutex, deallocated, holders, registered,
                 recVars, hdlVars, ctrVars, locVars, histVars>>

\* --------------------------------------------------------- for_promise
\* auto guard = std::lock_guard(mutex)
FpLock(t) ==
  /\ Running /\ pc[t] = "idle" /\ InUse
  /\ mutex = NULL
  /\ mutex' = t
  /\ pc' = [pc EXCEPT ![t] = "fp_load"]
  /\ UNCHANGED <<promise_head, free_head, ref_count, deallocated, abort_in, holders, registered,
                 recVars, hdlVars, ctrVars, promise, current, rm_next, rm_previous, final, histVars>>

\* (2) current = promise_head.load(acquire)
FpLoad(t) ==
  /\ Running /\ pc[t] = "fp_load"
  /\ current' = [current EXCEPT ![t] = promise_head]
  /\ snap' = [snap EXCEPT ![t] = LiveList]
  /\ snap_set' = [snap_set EXCEPT ![t] =
         {r \in Records : Published(r) /\ ~Destroyed(r)}]
  /\ visited' = [visited EXCEPT ![t] = <<>>]
  /\ pc' = [pc EXCEPT ![t] = "fp_walk"]
  /\ UNCHANGED <<regVars, recVars, hdlVars, ctrVars, promise, rm_next, rm_previous, final, gcHist, uaf>>

\* Mutant: the walk takes each record it visits off the head of the list.
FpVisitConsumes(t) ==
  /\ Running /\ pc[t] = "fp_walk" /\ current[t] # NULL
  /\ visited' = [visited EXCEPT ![t] =
         IF Len(@) <= NumRecords THEN Append(@, current[t]) ELSE @]
  /\ \E n \in Rd(next, current[t]) :
       /\ current' = [current EXCEPT ![t] = n]
       /\ promise_head' = n
  /\ uaf' = (uaf \/ Destroyed(current[t]))
  /\ UNCHANGED <<free_head, ref_count, mutex, deallocated, abort_in, holders, registered,
                 recVars, hdlVars, ctrVars, pc, promise, rm_next, rm_previous, final, snap,
                 snap_set, gcHist>>

\* function(current); current = current->next
FpVisit(t) ==
  /\ Running /\ pc[t] = "fp_walk" /\ current[t] # NULL
  /\ visited' = [visited EXCEPT ![t] =
         IF Len(@) <= NumRecords THEN Append(@, current[t]) ELSE @]
  /\ \E n \in Rd(next, current[t]) : current' = [current EXCEPT ![t] = n]
  /\ uaf' = (uaf \/ Destroyed(current[t]))
  /\ UNCHANGED <<regVars, recVars, hdlVars, ctrVars, pc, promise, rm_next, rm_previous, final, snap,
                 snap_set, gcHist>>

\* the walk ends: the guard releases the mutex and for_promise returns
FpUnlock(t) ==
  /\ Running /\ pc[t] = "fp_walk" /\ current[t] = NULL
  /\ mutex' = NULL
  /\ pc' = [pc EXCEPT ![t] = "idle"]
  /\ visited' = [visited EXCEPT ![t] = <<>>]
  /\ snap' = [snap EXCEPT ![t] = <<>>]
  /\ snap_set' = [snap_set EXCEPT ![t] = {}]
  /\ UNCHANGED <<promise_head, free_head, ref_count, deallocated, abort_in, holders, registered,
                 recVars, hdlVars, ctrVars, promise, current, rm_next, rm_previous, final, gcHist, uaf>>

\* -------------------------------------------------------- update_state
\* if (promise_in_registry != nullptr) promise_in_registry->state.store(state)
UpdateState(t, r, s) ==
  /\ Running /\ pc[t] = "idle" /\ handle[r] = "held"
  /\ state' = [state EXCEPT ![r] = s]
  /\ UNCHANGED <<regVars, allocated, next, previous, next_to_free, registry, handle,
                 destroyCount, added_by, locVars, histVars, hdlVars, ctrVars>>

\* -------------------------------------------------- AddToAsyncRegistry
\* AddToAsyncRegistry::promise_in_registry: the record of an attached handle
\* from the return of add until the handle is destroyed, nullptr for a
\* default-constructed handle.
promise_in_registry(h) == IF h \in Records THEN h ELSE NULL

\* A handle that exists: the default-constructed one, or the handle of a
\* record between its construction and its destruction.
Callable(h) == h = Empty \/ (h \in Records /\ handle[h] = "held")

\* Mutant: the store writes the alternative of the variant and leaves the
\* payload of the old value.
SetPromiseWaiterTagOnly(t, h, w) ==
  /\ Running /\ pc[t] = "idle" /\ Callable(h)
  /\ IF promise_in_registry(h) # NULL
       THEN /\ waiter' = [waiter EXCEPT ![promise_in_registry(h)] = <<w[1], @[2]>>]
            /\ waiter_writes' = [waiter_writes EXCEPT ![promise_in_registry(h)] = @ \cup {w}]
            /\ UNCHANGED last_call
       ELSE /\ last_call' = <<"set_promise_waiter", h, NULL>>
            /\ UNCHANGED <<waiter, waiter_writes>>
  /\ UNCHANGED <<regVars, recVars, ctrVars, locVars, histVars, line, line_writes, shot>>

\* set_promise_waiter(waiter):
\* if (promise_in_registry != nullptr) promise_in_registry->waiter.store({{waiter}})
SetPromiseWaiter(t, h, w) ==
  /\ Running /\ pc[t] = "idle" /\ Callable(h)
  /\ IF promise_in_registry(h) # NULL
       THEN /\ waiter' = [waiter EXCEPT ![promise_in_registry(h)] = w]
            /\ waiter_writes' = [waiter_writes EXCEPT ![promise_in_registry(h)] = @ \cup {w}]
            /\ UNCHANGED last_call
       ELSE /\ last_call' = <<"set_promise_waiter", h, NULL>>
            /\ UNCHANGED <<waiter, waiter_writes>>
  /\ UNCHANGED <<regVars, recVars, ctrVars, locVars, histVars, line, line_writes, shot>>

\* Mutant: update_source_location does not test promise_in_registry; on a
\* handle without record it dereferences nullptr.
UpdateSourceLocationUnchecked(t, h, l) ==
  /\ Running /\ pc[t] = "idle" /\ Callable(h)
  /\ IF promise_in_registry(h) # NULL
       THEN /\ line' = [line EXCEPT ![promise_in_registry(h)] = l]
            /\ line_writes' = [line_writes EXCEPT ![promise_in_registry(h)] = @ \cup {l}]
            /\ UNCHANGED <<last_call, abort_in>>
       ELSE /\ last_call' = <<"update_source_location", h, NULL>>
            /\ abort_in' = "crash"
            /\ UNCHANGED <<line, line_writes>>
  /\ UNCHANGED <<promise_head, free_head, ref_count, mutex, deallocated, holders, registered,
                 recVars, ctrVars, locVars, histVars, waiter, waiter_writes, shot>>

\* update_source_location(loc):
\* if (promise_in_registry != nullptr) promise_in_registry->source_location.line.store(loc.line())
UpdateSourceLocation(t, h, l) ==
  /\ Running /\ pc[t] = "idle" /\ Callable(h)
  /\ IF promise_in_registry(h) # NULL
       THEN /\ line' = [line EXCEPT ![promise_in_registry(h)] = l]
            /\ line_writes' = [line_writes EXCEPT ![promise_in_registry(h)] = @ \cup {l}]
            /\ UNCHANGED <<last_call, abort_in>>
       ELSE /\ last_call' = <<"update_source_location", h, NULL>>
            /\ UNCHANGED <<line, line_writes, abort_in>>
  /\ UNCHANGED <<promise_head, free_head, ref_count, mutex, deallocated, holders, registered,
                 recVars, ctrVars, locVars, histVars, waiter, waiter_writes, shot>>

\* update_state(state) on a handle with or without record
UpdateStateOn(t, h, s) ==
  IF promise_in_registry(h) # NULL
    THEN UpdateState(t, promise_in_registry(h), s)
    ELSE /\ Running /\ pc[t] = "idle" /\ Callable(h)
         /\ last_call' = <<"update_state", h, NULL>>
         /\ UNCHANGED <<regVars, recVars, ctrVars, locVars, histVars, waiter, line, waiter_writes,
                        line_writes, shot>>

\* Promise::id(): return this
PromiseId(r) == r

\* id(): promise_in_registry->id() if promise_in_registry != nullptr, else nullptr
Id(t, h) ==
  /\ Running /\ pc[t] = "idle" /\ Callable(h)
  /\ last_call' = <<"id", h, IF promise_in_registry(h) # NULL
                               THEN PromiseId(promise_in_registry(h)) ELSE NULL>>
  /\ UNCHANGED <<regVars, recVars, ctrVars, locVars, histVars, waiter, line, waiter_writes,
                 line_writes, shot>>

\* ~AddToAsyncRegistry(): mark_for_deletion on the record's registry, a no-op
\* for a handle without record
DestroyHandle(t, h) ==
  IF promise_in_registry(h) # NULL
    THEN MarkAssert(t, promise_in_registry(h))
    ELSE /\ Running /\ pc[t] = "idle" /\ Callable(h)
         /\ last_call' = <<"destroy", h, NULL>>
         /\ UNCHANGED <<regVars, recVars, ctrVars, locVars, histVars, waiter, line, waiter_writes,
                        line_writes, shot>>

\* ---------------------------------------------------- Promise::snapshot
\* snapshot() is called by the callback of for_promise on the record it was
\* handed: .source_location = source_location.snapshot(), i.e. line.load()
SnapLine(t) ==
  /\ Running /\ pc[t] = "fp_walk" /\ current[t] # NULL
  /\ shot' = [shot EXCEPT ![t] = [NoShot EXCEPT !.rec = current[t],
                                                 !.line = line[current[t]],
                                                 !.seen_lines = line_writes[current[t]]]]
  /\ pc' = [pc EXCEPT ![t] = "snap_waiter"]
  /\ UNCHANGED <<regVars, recVars, ctrVars, promise, current, rm_next, rm_previous, final,
                 histVars, waiter, line, waiter_writes, line_writes, last_call>>

\* .waiter = waiter.load()
SnapWaiter(t) ==
  /\ Running /\ pc[t] = "snap_waiter"
  /\ shot' = [shot EXCEPT ![t].waiter = waiter[shot[t].rec],
                          ![t].seen_waiters = waiter_writes[shot[t].rec]]
  /\ pc' = [pc EXCEPT ![t] = "snap_state"]
  /\ UNCHANGED <<regVars, recVars, ctrVars, promise, current, rm_next, rm_previous, final,
                 histVars, waiter, line, waiter_writes, line_writes, last_call>>

\* .state = state.load()
SnapState(t) ==
  /\ Running /\ pc[t] = "snap_state"
  /\ shot' = [shot EXCEPT ![t].state = state[shot[t].rec]]
  /\ pc' = [pc EXCEPT ![t] = "snap_ret"]
  /\ UNCHANGED <<regVars, recVars, ctrVars, promise, current, rm_next, rm_previous, final,
                 histVars, waiter, line, waiter_writes, line_writes, last_call>>

\* the callback returns with the snapshot; current = current->next
SnapReturn(t) ==
  /\ Running /\ pc[t] = "snap_ret"
  /\ visited' = [visited EXCEPT ![t] =
         IF Len(@) <= NumRecords THEN Append(@, current[t]) ELSE @]
  /\ \E n \in Rd(next, current[t]) : current' = [current EXCEPT ![t] = n]
  /\ uaf' = (uaf \/ Destroyed(current[t]))
  /\ shot' = [shot EXCEPT ![t] = NoShot]
  /\ pc' = [pc EXCEPT ![t] = "fp_walk"]
  /\ UNCHANGED <<regVars, recVars, ctrVars, promise, rm_next, rm_previous, final, snap,
                 snap_set, gcHist, waiter, line, waiter_writes, line_writes, last_call>>

\* ------------------------------------------------------- specification
Next ==
  \E t \in Threads :
    \/ AddAssert(t) \/ AddLoadHead(t) \/ AddSetNext(t) \/ AddSetPrevious(t)
    \/ AddStoreHead(t) \/ AddIncrement(t)
    \/ \E r \in Records \cup {Foreign} : MarkAssert(t, r)
    \/ MarkLoadFree(t) \/ MarkSetNextToFree(t) \/ MarkCasSuccess(t) \/ MarkCasFail(t)
    \/ MarkDecrement(t) \/ DecrementRef(t) \/ IncrementRef(t)
    \/ GcAssert(t) \/ GcExchange(t) \/ GcLock(t) \/ RemoveLoad(t) \/ RemoveUnlink(t)
    \/ RemoveFixNext(t) \/ GcDestroy(t) \/ GcAdvance(t) \/ GcUnlock(t) \/ Delete(t)
    \/ Crash(t)
    \/ FpLock(t) \/ FpLoad(t) \/ FpVisit(t) \/ FpUnlock(t)

Spec == Init /\ [][Next]_vars

\* A call that has started goes on: every thread keeps being scheduled, the
\* mutex is handed to a waiting collector, and the weak compare-exchange
\* does not fail forever once free_head holds the expected value.
Step(t) ==
  \/ AddLoadHead(t) \/ AddSetNext(t) \/ AddSetPrevious(t) \/ AddStoreHead(t)
  \/ AddIncrement(t)
  \/ MarkLoadFree(t) \/ MarkSetNextToFree(t) \/ MarkCasSuccess(t) \/ MarkCasFail(t)
  \/ MarkDecrement(t)
  \/ (pc[t] = "gc_assert" /\ GcAssert(t))
  \/ GcExchange(t) \/ GcLock(t) \/ RemoveLoad(t) \/ RemoveUnlink(t)
  \/ RemoveFixNext(t) \/ GcDestroy(t) \/ GcAdvance(t) \/ GcUnlock(t) \/ Delete(t)
  \/ FpLoad(t) \/ FpVisit(t) \/ FpUnlock(t)

Fairness ==
  \A t \in Threads :
    /\ WF_vars(Step(t))
    /\ SF_vars(GcLock(t))
    /\ SF_vars(MarkCasSuccess(t))

FairSpec == Init /\ [][Next]_vars /\ Fairness

\* The registry together with the handles' updates of the records' states.
NextState ==
  \/ Next
  \/ \E t \in Threads, r \in Records, s \in States : UpdateState(t, r, s)

StateSpec == Init /\ [][NextState]_vars

\* The owner adds records, the handle of one of them is updated from every
\* thread, and inspectors walk the list and take snapshots.
NextSnap ==
  \E t \in Threads :
    \/ IncrementRef(t)
    \/ AddAssert(t) \/ AddLoadHead(t) \/ AddSetNext(t) \/ AddSetPrevious(t)
    \/ AddStoreHead(t) \/ AddIncrement(t)
    \/ \E w \in WaiterArgs : SetPromiseWaiter(t, Observed, w)
    \/ \E l \in LineArgs : UpdateSourceLocation(t, Observed, l)
    \/ \E s \in States : UpdateState(t, Observed, s)
    \/ FpLock(t) \/ FpLoad(t) \/ FpVisit(t) \/ FpUnlock(t)
    \/ SnapLine(t) \/ SnapWaiter(t) \/ SnapState(t) \/ SnapReturn(t)

SnapSpec == Init /\ [][NextSnap]_vars

\* The owner adds records; every thread calls the operations of the handle
\* of one of them and of a default-constructed handle, and destroys them.
NextHandle ==
  \E t \in Threads :
    \/ IncrementRef(t)
    \/ AddAssert(t) \/ AddLoadHead(t) \/ AddSetNext(t) \/ AddSetPrevious(t)
    \/ AddStoreHead(t) \/ AddIncrement(t)
    \/ \E h \in {Empty, Observed} :
         \/ \E w \in WaiterArgs : SetPromiseWaiter(t, h, w)
         \/ \E l \in LineArgs : UpdateSourceLocation(t, h, l)
         \/ \E s \in States : UpdateStateOn(t, h, s)
         \/ Id(t, h)
         \/ DestroyHandle(t, h)
    \/ MarkLoadFree(t) \/ MarkSetNextToFree(t) \/ MarkCasSuccess(t) \/ MarkCasFail(t)
    \/ MarkDecrement(t)

HandleSpec == Init /\ [][NextHandle]_vars

\* Threads call next on one counter.
NextCounter ==
  \E t \in Threads :
    \/ \E v \in T : NextEnter(t, v)
    \/ NextLock(t)
    \/ NextLoad(t)
    \/ \E expired \in BOOLEAN : NextReturn(t, expired)

CounterSpec == CounterInit /\ [][NextCounter]_vars

\* ---------------------------------------------------------- properties
\* The sequence of the records of S from the last added to the first added.
RECURSIVE Descending(_)
Descending(S) ==
  IF S = {} THEN <<>>
  ELSE LET m == CHOOSE x \in S : \A y \in S : y <= x
       IN <<m>> \o Descending(S \ {m})

WalkDone(t) == pc[t] = "fp_walk" /\ current[t] = NULL
GcReturns(t) == pc[t] = "gc_loop" /\ current[t] = NULL
OwnerPassReturns(t) == GcReturns(t) /\ t = Owner /\ ~final[t]
Walking == \E t \in Threads : pc[t] \in WalkPcs

\* C1: while a thread is inside for_promise no garbage_collect is in its
\* locked section, and no step taken meanwhile destroys or unlinks a record;
\* a collector that has exchanged free_head stays at the mutex.
C1_IterationExcludesGc ==
  [][Walking =>
       /\ destroyCount' = destroyCount
       /\ \A u \in Threads : pc[u] \notin GcLockedPcs /\ pc'[u] \notin GcLockedPcs]_vars

C1_Witness ==
  \E t, u \in Threads :
    /\ pc[t] = "fp_walk" /\ Len(visited[t]) > 0 /\ current[t] # NULL
    /\ pc[u] = "gc_lock" /\ current[u] # NULL

\* C2: no record is destroyed twice and no operation reads or writes a field
\* of a record after its destroy() has run.
C2_NoUseAfterDestroy ==
  /\ ~uaf
  /\ \A r \in Records : destroyCount[r] <= 1

AssertionFailed == abort_in \in {"add", "mark_for_deletion", "garbage_collect"}
OwnerPassStarts == pc[Owner] = "gc_exchange" /\ ~final[Owner]

\* C3: if the owner keeps calling garbage_collect, every record whose
\* mark_for_deletion has returned is eventually destroyed (unless a caller
\* broke a precondition and the process was aborted by an assertion).
C3_EventuallyReclaimed ==
  ([]<>OwnerPassStarts) =>
    \A r \in Records : (MarkReturned(r) ~> (Destroyed(r) \/ AssertionFailed))

\* C4: when a garbage_collect pass of the owner returns, every record whose
\* mark_for_deletion had returned before the call was in the chain the call
\* took from free_head and has been destroyed.
C4_MarkThenCollect ==
  \A t \in Threads :
    /\ (t = Owner /\ ~final[t] /\ pc[t] \in {"gc_lock"} \cup GcLockedPcs)
         => gc_marked[t] \subseteq gc_chain[t]
    /\ OwnerPassReturns(t) => \A r \in gc_marked[t] : Destroyed(r)

\* C5: when a garbage_collect pass of the owner returns and no
\* mark_for_deletion was in progress during it, free_head is null and every
\* marked record has been destroyed exactly once.
C5_QuiescentPostcondition ==
  \A t \in Threads :
    (OwnerPassReturns(t) /\ gc_quiet[t]) =>
      /\ free_head = NULL
      /\ \A r \in Records : handle[r] = "dropped" => destroyCount[r] = 1

\* C6: when a garbage_collect pass of the owner returns, the live list is the
\* live list from before the pass without the records of the chain it took,
\* the others in their old order.
C6_LiveListAfterGc ==
  \A t \in Threads :
    OwnerPassReturns(t) =>
      LiveList = SelectSeq(gc_before[t], LAMBDA r : r \notin gc_chain[t])

\* C7: a finished walk of for_promise has visited the records that were
\* published and not reclaimed, from the last added to the first added, each
\* once.
C7_LifoOrder ==
  \A t \in Threads : WalkDone(t) => visited[t] = Descending(snap_set[t])

C7_Witness ==
  \E t \in Threads :
    /\ WalkDone(t) /\ visited[t] = <<2, 1>>
    /\ t # Owner /\ pc[Owner] \in AddPcs \cup GcPcs

MarkStep ==
  \E t \in Threads :
    \/ pc[t] = "idle" /\ pc'[t] = "mark_load"
    \/ pc[t] \in MarkPcs /\ pc'[t] # pc[t]

VisitsUntilCollected ==
  \A t \in Threads :
    WalkDone(t) =>
      /\ \A r \in snap_set[t] \ collected : r \in Range(visited[t])
      /\ \A r \in collected : r \notin Range(visited[t])

\* C8: the steps of mark_for_deletion change neither promise_head nor any
\* next or previous pointer; a walk of for_promise visits a marked record as
\* long as no garbage_collect pass that took it has returned, and never
\* after such a pass has returned.
C8_MarkLeavesLiveList ==
  [][/\ MarkStep => UNCHANGED <<promise_head, next, previous>>
     /\ VisitsUntilCollected']_vars

\* C9: a finished walk of for_promise has visited exactly the live list of
\* the moment of its load of promise_head, in list order.
C9_WalkSeesListAtLoad ==
  \A t \in Threads : WalkDone(t) => visited[t] = snap[t]

C9_Witness ==
  \E t \in Threads :
    /\ WalkDone(t) /\ Len(visited[t]) >= 1
    /\ promise_head # NULL /\ promise_head \notin Range(visited[t])
    /\ \E r \in Range(visited[t]) : handle[r] = "dropped"

NoForeignAdd == \A t \in Threads \ {Owner} : pc[t] \notin AddPcs

InsertedByOwner ==
  /\ \A r \in Records : added_by[r] \in {NULL, Owner}
  /\ \A r \in Range(LiveList) : added_by[r] = Owner

\* C10: add on a thread that is not the owner aborts the process in the step
\* of its assertion, which changes neither promise_head, nor a record's next,
\* registry or previous, nor ref_count; no such thread gets into the body of
\* add, and every record of the live list was inserted by the owner.
C10_AddOnlyOnOwner ==
  [][/\ (abort_in = "none" /\ abort_in' = "add") =>
          UNCHANGED <<promise_head, next, registry, previous, ref_count, allocated>>
     /\ NoForeignAdd'
     /\ InsertedByOwner']_vars

C10_Witness ==
  /\ abort_in = "add"
  /\ Len(LiveList) = 1
  /\ ref_count = 2

NoForeignMark ==
  \A t \in Threads : pc[t] \in MarkPcs => RegistryOf(promise[t]) = This

\* C11: mark_for_deletion of a record whose registry pointer is not this
\* registry aborts the process in the step of its assertion, which changes
\* neither free_head, nor a record's next_to_free or state, nor ref_count; no
\* thread gets into the body of mark_for_deletion with such a record, and
\* nothing happens after the abort.
C11_MarkForeignIsFatal ==
  [][/\ (abort_in = "none" /\ abort_in' = "mark_for_deletion") =>
          UNCHANGED <<free_head, next_to_free, state, ref_count>>
     /\ abort_in # "mark_for_deletion"
     /\ NoForeignMark']_vars

C11_Witness ==
  /\ abort_in = "mark_for_deletion"
  /\ \E t \in Threads : promise[t] = Foreign
  /\ free_head # NULL
  /\ ref_count > 1

NoForeignGc ==
  \A t \in Threads \ {Owner} : pc[t] \in GcPcs \ {"gc_assert"} => ref_count = 0

\* C12: garbage_collect on a thread that is not the owner while ref_count is
\* not zero aborts the process in the step of its assertion, before the
\* exchange: the step changes neither free_head nor the live list and destroys
\* nothing, nothing happens after the abort, and no such thread gets into
\* the body of garbage_collect while ref_count is not zero.
C12_GcForeignIsFatal ==
  [][/\ (abort_in = "none" /\ abort_in' = "garbage_collect") =>
          /\ ref_count > 0
          /\ UNCHANGED <<free_head, promise_head, next, previous, destroyCount, pc>>
     /\ abort_in # "garbage_collect"
     /\ NoForeignGc']_vars

C12_Witness ==
  /\ abort_in = "garbage_collect"
  /\ free_head # NULL
  /\ Len(LiveList) = 2
  /\ \A r \in Records : ~Destroyed(r)

\* C13: the teardown is started by the decrement that takes ref_count from 1
\* to 0 and by no other step, on the thread of that decrement, whether it
\* comes from decrement_ref_count directly or from mark_for_deletion; that
\* thread runs garbage_collect once and then deallocates the registry; the
\* registry is deallocated at most once and at most one thread is in the
\* teardown; a decrement that leaves the count above zero starts nothing.
C13_SelfDestruction ==
  [][/\ \A t \in Threads :
          /\ (final'[t] /\ ~final[t]) =>
                ref_count = 1 /\ ref_count' = 0 /\ pc'[t] = "gc_assert"
          /\ (pc'[t] = "gc_assert" /\ pc[t] # "gc_assert") => (final'[t] /\ ~final[t])
          /\ final'[t] => pc'[t] \in GcPcs \cup {"delete"}
          /\ (pc'[t] = "delete" /\ pc[t] # "delete") => (final[t] /\ GcReturns(t))
     /\ (ref_count = 1 /\ ref_count' = 0) => \E t \in Threads : final'[t] /\ ~final[t]
     /\ (ref_count > 1 /\ ref_count' = ref_count - 1) => UNCHANGED <<final, deallocated>>
     /\ deallocated' # deallocated =>
          /\ deallocated = 0 /\ deallocated' = 1
          /\ \E t \in Threads : final[t] /\ pc[t] = "delete" /\ ~final'[t]
     /\ Cardinality({t \in Threads : final'[t]}) <= 1]_vars

C13_Witness ==
  /\ deallocated = 0
  /\ \E t \in Threads \ {Owner} : final[t] /\ pc[t] = "delete" /\ promise[t] \in Records
  /\ allocated = 2

\* C14: when the registry has been deallocated, every record that was ever
\* added to it has been destroyed exactly once.
C14_TeardownLeavesNoLeaks ==
  deallocated > 0 => \A r \in 1..allocated : destroyCount[r] = 1

\* C15: while an outside holder owns a counted reference, ref_count is at
\* least the number of such references whatever marks have run, no teardown
\* has started and the registry is not deallocated; when the registry is
\* deallocated no thread is inside add, for_promise, mark_for_deletion or a
\* garbage_collect pass.
C15_NotDeallocatedWhileHeld ==
  /\ holders > 0 =>
       /\ ref_count >= holders
       /\ deallocated = 0
       /\ \A t \in Threads : ~final[t] /\ pc[t] # "delete"
  /\ deallocated > 0 =>
       \A t \in Threads : pc[t] \notin AddPcs \cup WalkPcs \cup MarkPcs \cup GcPcs

C15_Witness ==
  /\ holders > 0 /\ ref_count = 1
  /\ \A r \in Records : MarkReturned(r)
  /\ \E t \in Threads : pc[t] = "fp_walk" /\ Len(visited[t]) = 1

\* C16: every record reachable from free_head or in the chain taken by a
\* garbage_collect has the state Deleted, and so has every record whose
\* mark_for_deletion has returned and which is still in the live list.
C16_MarkedIsDeleted ==
  /\ \A r \in Range(FreeList) : state[r] = "Deleted"
  /\ \A t \in Threads : \A r \in gc_chain[t] : state[r] = "Deleted"
  /\ \A r \in Range(LiveList) : MarkReturned(r) => state[r] = "Deleted"

\* The state b may follow the state a.
Advances(a, b) ==
  CASE a = "Deleted" -> b = "Deleted"
    [] a = "Resolved" -> b \in {"Resolved", "Deleted"}
    [] OTHER -> TRUE

\* C17: no step moves the state of a record from Resolved back to Running or
\* Suspended or away from Deleted.
C17_StateOnlyAdvances ==
  [][\A r \in Records : Advances(state[r], state'[r])]_vars

\* C18 as stated: a marked record that is neither destroyed nor in the chain
\* of a running garbage_collect is reachable from exactly one of promise_head
\* and free_head.
C18_MarkedInExactlyOneList ==
  \A r \in Records :
    (MarkReturned(r) /\ ~Destroyed(r) /\ \A t \in Threads : r \notin gc_chain[t]) =>
      (r \in Range(LiveList)) # (r \in Range(FreeList))

\* C18, amended: marking does not unlink.  Every record reachable from
\* free_head is marked, not destroyed and still reachable from promise_head;
\* a destroyed record is reachable from neither.
C18_FreeListWithinLiveList ==
  /\ \A r \in Range(FreeList) :
       handle[r] = "dropped" /\ ~Destroyed(r) /\ r \in Range(LiveList)
  /\ \A r \in Records :
       Destroyed(r) => r \notin Range(LiveList) /\ r \notin Range(FreeList)

C18_Witness ==
  \E r, q \in Records :
    /\ MarkReturned(r) /\ r \in Range(FreeList) /\ r \in Range(LiveList)
    /\ Destroyed(q)

BackLinked ==
  (\A t \in Threads : pc[t] \notin {"add_store", "gc_fixnext"}) =>
    \A i \in 1..Len(LiveList) :
      previous[LiveList[i]] = IF i = 1 THEN NULL ELSE LiveList[i - 1]

C20_LiveListAcyclic ==
  /\ Len(LiveList) <= NumRecords
  /\ Cardinality(Range(LiveList)) = Len(LiveList)

C20_Witness ==
  \E t \in Threads :
    /\ pc[t] = "gc_fixnext" /\ rm_previous[t] # NULL
    /\ Len(LiveList) = 1

\* The thread may reclaim: it is the owner, or its decrement took ref_count
\* to zero.
Reclaimer(t) == t = Owner \/ final[t]

AddStepOf(t) ==
  \/ AddLoadHead(t) \/ AddSetNext(t) \/ AddSetPrevious(t) \/ AddStoreHead(t)
  \/ AddIncrement(t)

\* The next step of mark_for_deletion on thread t, its decrement included.
MarkStepOf(t) ==
  \/ MarkLoadFree(t) \/ MarkSetNextToFree(t) \/ MarkCasSuccess(t) \/ MarkCasFail(t)
  \/ MarkDecrement(t)

\* C22: the mutex does not guard insertion or marking: while a for_promise
\* or a garbage_collect holds the mutex, a thread inside add or inside
\* mark_for_deletion (up to and including its decrement) can take its next
\* step, and that step neither takes nor releases the mutex.
C22_MutexGuardsNeitherAddNorMark ==
  (Running /\ mutex # NULL) =>
    \A t \in Threads :
      /\ pc[t] \in AddPcs => ENABLED (AddStepOf(t) /\ mutex' = mutex)
      /\ pc[t] \in MarkPcs => ENABLED (MarkStepOf(t) /\ mutex' = mutex)

\* An add started and returned while a walk that saw one record still
\* holds the mutex.
C22_Witness ==
  \E t \in Threads \ {Owner} :
    /\ pc[t] = "fp_walk" /\ mutex = t /\ Len(snap[t]) = 1
    /\ Len(LiveList) = 2 /\ pc[Owner] = "idle"
    /\ \A r \in Range(LiveList) : handle[r] = "held"

\* The position of a thread inside add, in program order.
AddOrder(p) ==
  CASE p = "add_load" -> 1 [] p = "add_next" -> 2 [] p = "add_previous" -> 3
    [] p = "add_store" -> 4 [] p = "add_inc" -> 5 [] OTHER -> 6

\* Thread t is inside the loop of mark_for_deletion and the head it expects
\* is no longer the head of the free list: its compare-exchange will fail.
Stale(t) == pc[t] \in {"mark_set", "mark_cas"} /\ free_head # current[t]

EmptyPass(t) ==
  pc[t] \in {"gc_lock", "gc_loop"} /\ current[t] = NULL /\ gc_chain[t] = {}

\* C24 as stated: when the owner collects again and no mark_for_deletion
\* has completed (returned) whose record is still to be reclaimed, the pass
\* has nothing to do.
C24_NoCompletedMarkNothingToDo ==
  ( /\ pc[Owner] = "gc_lock" /\ ~final[Owner] /\ collected # {}
    /\ gc_marked[Owner] = {}
    /\ \A r \in Records : MarkReturned(r) => Destroyed(r) )
  => gc_chain[Owner] = {}

\* C24 amended: garbage_collect is idempotent as long as no compare-exchange
\* of a mark_for_deletion succeeds in between. Its exchange leaves the free list
\* empty, the free list becomes non-empty again only by the compare-exchange
\* of a mark_for_deletion, and a garbage_collect that finds the free list
\* empty changes neither promise_head, a next or previous pointer, free_head
\* nor the set of destroyed records, and returns with the live list it found.
C24_GcIdempotent ==
  [][\A t \in Threads :
       /\ (pc[t] = "gc_exchange" /\ pc'[t] # pc[t]) => free_head' = NULL
       /\ (free_head = NULL /\ free_head' # NULL) =>
            \E u \in Threads : pc[u] = "mark_cas" /\ pc'[u] = "mark_dec"
       /\ (EmptyPass(t) /\ pc'[t] # pc[t]) =>
            /\ UNCHANGED <<promise_head, next, previous, free_head, destroyCount>>
            /\ pc'[t] \in {"gc_loop", "idle", "delete"}
       /\ (EmptyPass(t) /\ pc[t] = "gc_loop" /\ t = Owner) => LiveList = gc_before[t]]_vars

\* The owner's second pass, after a pass that destroyed a record, is about
\* to return and found nothing to do.
C24_Witness ==
  /\ OwnerPassReturns(Owner) /\ EmptyPass(Owner)
  /\ collected # {} /\ \E r \in Records : Destroyed(r)
  /\ LiveList # <<>>

\* The step is a step of for_promise on thread t.
WalkStepOf(t) ==
  /\ pc[t] \in WalkPcs \/ pc'[t] \in WalkPcs
  /\ pc'[t] # pc[t] \/ visited'[t] # visited[t] \/ current'[t] # current[t]

\* C25: for_promise is a pure read: its steps change neither promise_head,
\* free_head, ref_count nor a record's next, previous or next_to_free; a
\* finished walk has visited the live list of its load, and the live list
\* changes only by the publishing store of an add or the unlink of a
\* garbage_collect, never by a step of mark_for_deletion, so two walks
\* with no add and no garbage_collect between them visit the same sequence.
C25_ForPromisePureRead ==
  [][/\ \A t \in Threads :
          /\ WalkStepOf(t) =>
               UNCHANGED <<promise_head, free_head, ref_count, next, previous,
                           next_to_free, destroyCount, handle>>
          /\ WalkDone(t)' => visited'[t] = snap'[t]
     /\ LiveList' # LiveList =>
          \E u \in Threads :
            \/ pc[u] = "add_store" /\ pc'[u] = "add_inc"
            \/ pc[u] = "gc_unlink" /\ pc'[u] = "gc_fixnext"]_vars

\* A walk has visited two records, of which one was marked and linked to
\* the free list, and left the registry as it was.
C25_Witness ==
  \E t \in Threads :
    /\ WalkDone(t) /\ Len(visited[t]) = 2 /\ LiveList = visited[t]
    /\ free_head \in Range(visited[t]) /\ ref_count >= 2

\* The records that were added and are not yet marked for deletion.
Unmarked == {r \in Records : handle[r] = "held"}

\* C26: whenever no add and no mark_for_deletion is part-way through,
\* ref_count is the number of outside holders plus the number of records
\* added and not yet marked; marked records that are not yet reclaimed do
\* not count.
C26_RefCountAccounting ==
  (Running /\ \A t \in Threads : pc[t] \notin AddPcs \cup MarkPcs) =>
    ref_count = holders + Cardinality(Unmarked)

\* One holder, one unmarked record and one record marked but not reclaimed.
C26_Witness ==
  /\ Running /\ \A t \in Threads : pc[t] = "idle"
  /\ holders = 1 /\ ref_count = 2 /\ Cardinality(Unmarked) = 1
  /\ \E r \in Records : handle[r] = "dropped" /\ ~Destroyed(r) /\ r \in Range(FreeList)

\* C27: a record stays in the live list until it is marked: from the store
\* that publishes it until its mark_for_deletion is called, a record is
\* reachable from promise_head and is not destroyed, whatever add and
\* garbage_collect (the final one included) do to other records.
C27_InLiveListUntilMarked ==
  \A r \in Records :
    (Published(r) /\ handle[r] # "dropped") =>
      r \in Range(LiveList) /\ ~Destroyed(r)

\* A newer record was unlinked and destroyed, the older one is still held
\* and still in the list.
C27_Witness ==
  \E r, q \in Records :
    /\ r < q /\ Destroyed(q) /\ q \in collected
    /\ handle[r] = "held" /\ LiveList = <<r>>

\* C28: adding and garbage collection never happen concurrently: while a
\* thread is part-way through add, no thread is part-way through
\* garbage_collect, the final one after the last decrement included.
C28_AddExcludesGc ==
  \A t, u \in Threads : pc[t] \in AddPcs => pc[u] \notin GcPcs

\* The owner is inside add after an earlier pass has reclaimed a record,
\* while another thread is inside mark_for_deletion or for_promise.
C28_Witness ==
  /\ pc[Owner] \in AddPcs /\ collected # {}
  /\ \E u \in Threads \ {Owner} : pc[u] \in MarkPcs \cup WalkPcs

\* The values a cell of the waiter can hold as a whole.
WaiterValues == {NoWaiter} \cup WaiterArgs

\* C29: snapshots are per-field atomic: every field of a snapshot is the
\* value its cell held at the load, the waiter is the initial value or the
\* whole argument of a set_promise_waiter call made before the load, and
\* never the initial value once such a call has completed (after Async(X)
\* and Sync(Y) are both stored it is one of the two); the line is the
\* initial line or the argument of an update_source_location call made
\* before the load, and the state is a value of the enumeration.
C29_SnapshotFieldsAtomic ==
  /\ \A r \in Records :
       /\ waiter[r] \in (IF waiter_writes[r] = {} THEN {NoWaiter} ELSE waiter_writes[r])
       /\ line[r] \in (IF line_writes[r] = {} THEN {InitialLine} ELSE line_writes[r])
  /\ \A t \in Threads :
       pc[t] = "snap_ret" =>
         /\ shot[t].waiter \in (IF shot[t].seen_waiters = {} THEN {NoWaiter}
                                 ELSE shot[t].seen_waiters)
         /\ shot[t].waiter \in WaiterValues
         /\ shot[t].line \in (IF shot[t].seen_lines = {} THEN {InitialLine}
                               ELSE shot[t].seen_lines)
         /\ shot[t].state \in States

\* A snapshot taken while the two waiter writes raced with it: the line was
\* loaded before the second write, the waiter after both.
C29_Witness ==
  \E t \in Threads :
    /\ pc[t] = "snap_ret" /\ shot[t].rec = Observed
    /\ shot[t].seen_waiters = WaiterArgs /\ shot[t].waiter \in WaiterArgs
    /\ shot[t].line # line[Observed] /\ shot[t].state # state[Observed]

\* The step is a call on the default-constructed handle.
CallOnEmpty == last_call' # last_call /\ last_call'[2] = Empty

\* C30: a default-constructed handle is inert: set_promise_waiter,
\* update_source_location, update_state and the destruction of such a handle
\* change no record and no registry (free_head and ref_count included) and
\* start no mark_for_deletion, and its id() is the null sentinel; the id()
\* of an attached handle is the identity of its record at every call.
C30_EmptyHandleInert ==
  [][/\ CallOnEmpty =>
          /\ UNCHANGED <<regVars, recVars, locVars, waiter, line>>
          /\ last_call'[3] = NULL
     /\ (last_call' # last_call /\ last_call'[2] # Empty) =>
          /\ last_call'[1] = "id"
          /\ last_call'[2] \in Records /\ handle[last_call'[2]] = "held"
          /\ last_call'[3] = last_call'[2]
          /\ (last_call[1] = "id" /\ last_call[2] = last_call'[2]) =>
               last_call'[3] = last_call[3]]_vars

\* A default-constructed handle has just been destroyed while an attached
\* handle, whose waiter has been set, holds its record.
C30_Witness ==
  /\ last_call = <<"destroy", Empty, NULL>>
  /\ handle[Observed] = "held" /\ waiter[Observed] # NoWaiter
  /\ ref_count >= 2 /\ \A t \in Threads : pc[t] = "idle"

\* No record of the live list is destroyed or points to a destroyed record.
NoDanglingLink ==
  \A r \in Range(LiveList) :
    /\ ~Destroyed(r)
    /\ next[r] # NULL => ~Destroyed(next[r])
    /\ previous[r] # NULL => ~Destroyed(previous[r])

\* C32: garbage_collect unlinks each record before it destroys it, all
\* under the mutex: a record is destroyed by the thread that holds the
\* mutex, after it has left the live list; and whenever no garbage_collect
\* holds the mutex, no destroyed record is reachable from promise_head and
\* no record of the live list has a next or previous that is destroyed.
C32_UnlinkBeforeDestroy ==
  [][/\ \A r \in Records :
          destroyCount'[r] # destroyCount[r] =>
            /\ r \notin Range(LiveList)
            /\ \E t \in Threads : mutex = t /\ pc[t] = "gc_destroy" /\ current[t] = r
     /\ (\A t \in Threads : pc'[t] \notin GcLockedPcs) => NoDanglingLink']_vars

\* The older of two records was unlinked behind its predecessor and
\* destroyed; the pass has returned and the newer record is still held.
C32_Witness ==
  /\ mutex = NULL /\ \A t \in Threads : pc[t] \notin GcPcs
  /\ \E r, q \in Records :
       /\ q < r /\ Destroyed(q) /\ LiveList = <<r>>
       /\ next[r] = NULL /\ handle[r] = "held"

\* The compare-exchange of mark_for_deletion(r) has succeeded.
Linked(r) ==
  /\ handle[r] = "dropped"
  /\ \A t \in Threads : promise[t] = r => pc[t] \notin {"mark_load", "mark_set", "mark_cas"}

\* r is in the chain a running garbage_collect took and still has to process.
Pending(r) == ~Destroyed(r) /\ \E t \in Threads : r \in gc_chain[t]

\* The number of the three places r is in.
Places(r) ==
  (IF r \in Range(FreeList) THEN 1 ELSE 0) + (IF Pending(r) THEN 1 ELSE 0)
    + (IF Destroyed(r) THEN 1 ELSE 0)

\* C33: no mark is lost: once the compare-exchange of mark_for_deletion(r)
\* has succeeded, r is in exactly one of three places: reachable from
\* free_head, in the chain taken by a running garbage_collect, or destroyed;
\* the free list holds no record twice, the chains of two collectors share
\* no record, and a pass destroys only records of the chain it took.
C33_NoMarkLost ==
  [][/\ \A r \in Records : Linked(r)' => Places(r)' = 1
     /\ Cardinality(Range(FreeList')) = Len(FreeList')
     /\ \A t, u \in Threads : t # u => gc_chain'[t] \cap gc_chain'[u] = {}
     /\ \A r \in Records :
          destroyCount'[r] # destroyCount[r] =>
            \E t \in Threads : pc[t] = "gc_destroy" /\ r \in gc_chain[t]]_vars

RemovePcs == {"gc_unlink", "gc_fixnext"}

\* previous of every record of the live list is its predecessor in the
\* list, a record that is not destroyed, and none for the head.
BackLinksExact ==
  \A i \in 1..Len(LiveList) :
    IF i = 1 THEN previous[LiveList[i]] = NULL
    ELSE /\ previous[LiveList[i]] = LiveList[i - 1]
         /\ ~Destroyed(previous[LiveList[i]])
         /\ next[previous[LiveList[i]]] = LiveList[i]

\* C34: whenever the owner is not inside add and no thread is inside
\* remove, previous of a record of the live list is none exactly for the
\* head and otherwise the undestroyed predecessor whose next is the record;
\* hence remove is called on an undestroyed record of the live list, reads
\* and writes no destroyed record, and takes exactly that record out of the
\* list.
C34_BackLinkConsistency ==
  [][/\ (pc'[Owner] \notin AddPcs /\ \A t \in Threads : pc'[t] \notin RemovePcs)
          => BackLinksExact'
     /\ \A t \in Threads :
          /\ (pc[t] = "gc_loop" /\ pc'[t] = "gc_unlink") =>
               /\ ~Destroyed(current[t]) /\ current[t] \in Range(LiveList)
               /\ rm_previous'[t] # NULL => ~Destroyed(rm_previous'[t])
               /\ rm_next'[t] # NULL => ~Destroyed(rm_next'[t])
          /\ (pc[t] = "gc_unlink" /\ pc'[t] = "gc_fixnext") =>
               LiveList' = SelectSeq(LiveList, LAMBDA r : r # current[t])]_vars

\* remove is about to redirect the next of a predecessor: the record it
\* removes is not the head.
C34_Witness ==
  \E t \in Threads :
    /\ pc[t] = "gc_unlink" /\ rm_previous[t] # NULL
    /\ LiveList = <<rm_previous[t], current[t]>>
    /\ handle[rm_previous[t]] = "held"

\* mark_for_deletion on some record has not yet passed its successful
\* compare-exchange.
MarkBeforeCas == \E t \in Threads : pc[t] \in {"mark_load", "mark_set", "mark_cas"}

\* The decrement that takes ref_count from one to zero.
ReachesZero == ref_count = 1 /\ ref_count' = 0

\* C35: at the decrement that takes ref_count to zero no mark_for_deletion
\* is before its successful compare-exchange, no added record is unmarked,
\* and every record not yet destroyed is on the free list; when the registry
\* is deallocated the free list and the live list are both empty.
C35_QuiescentAtZero ==
  [][ /\ ReachesZero =>
           /\ ~MarkBeforeCas
           /\ \A t \in Threads : pc[t] \notin AddPcs
           /\ \A r \in 1..allocated :
                /\ handle[r] # "held"
                /\ ~Destroyed(r) => r \in Range(FreeList)
      /\ deallocated' > 0 => promise_head' = NULL /\ free_head' = NULL ]_vars

\* The teardown has been started by the decrement that reached zero.
ZeroReached == deallocated > 0 \/ \E t \in Threads : final[t]

\* C36: ref_count changes by one at a time, is never decremented at zero and
\* never wraps to SizeMax, and once a decrement has taken it to zero no step
\* changes it again.
C36_NoUnderflow ==
  [][ /\ ref_count' # ref_count =>
           /\ ~ZeroReached
           /\ ref_count' \in {ref_count + 1, ref_count - 1}
           /\ ref_count' >= 0
      /\ ref_count' < SizeMax
      /\ ZeroReached' => ref_count' = 0 ]_vars

\* The last reference was dropped by the mark of the second record on a thread
\* other than the owner, which is now in the locked section of the final pass
\* with the count at zero.
C36_Witness ==
  \E t \in Threads \ {Owner} :
    /\ final[t] /\ pc[t] = "gc_loop" /\ ref_count = 0
    /\ holders = 0 /\ allocated = NumRecords /\ promise[t] \in Records

\* The threads inside garbage_collect, from its assertion to its return.
Collectors == {t \in Threads : pc[t] \in GcPcs}

\* C37: at most one thread is inside garbage_collect at a time, so a pass of
\* the owner and the final pass of the last decrementer never overlap and no
\* two passes hold chains with a common record.
C37_OneCollector ==
  /\ Cardinality(Collectors) <= 1
  /\ \A t, u \in Threads : t # u => gc_chain[t] \cap gc_chain[u] = {}

\* The final pass runs on a thread other than the owner and is unlinking a
\* record, after a pass of the owner has reclaimed another one.
C37_Witness ==
  \E t \in Threads \ {Owner} :
    /\ final[t] /\ pc[t] = "gc_unlink" /\ collected # {}
    /\ current[t] \in Records /\ pc[Owner] = "idle"

\* The chain of next_to_free from p ends at a null pointer without passing
\* a record twice.
Acyclic(p) ==
  LET c == Chain(next_to_free, p, NumRecords + 1)
  IN  Len(c) <= NumRecords /\ Cardinality(Range(c)) = Len(c)

\* C38: the chain from free_head and the chain a collector still has to
\* process are finite and acyclic; a garbage_collect that holds the mutex
\* returns, a for_promise that holds the mutex releases it, and a
\* garbage_collect waiting for the mutex gets it (unless a caller broke a
\* precondition and the process was aborted by an assertion).
C38_Terminates ==
  /\ [](Acyclic(free_head) /\ \A t \in Threads : pc[t] \in GcLockedPcs => Acyclic(current[t]))
  /\ \A t \in Threads :
       /\ (pc[t] \in GcLockedPcs) ~> (pc[t] \notin GcLockedPcs \/ AssertionFailed)
       /\ (pc[t] \in WalkPcs) ~> (mutex # t \/ AssertionFailed)
       /\ (pc[t] = "gc_lock") ~> (pc[t] # "gc_lock" \/ AssertionFailed)

\* The smaller and the larger of two numbers.
Min(a, b) == IF a <= b THEN a ELSE b
Max(a, b) == IF a >= b THEN a ELSE b

\* The counter was created with runUntil == 0 and initialValue <= maxValue.
CountsToMax == _runUntil = 0 /\ initialValue <= _maxValue

\* C39: for a counter created with runUntil == 0 and initialValue <= maxValue,
\* under every interleaving of next calls the value never exceeds maxValue,
\* each call returns min(max(v, 1), maxValue - value before the call), the
\* sum of the returned amounts is the value minus initialValue, and a call
\* that finds the value at maxValue returns 0.
C39_HandsOutUntilMax ==
  [][ CountsToMax =>
        /\ _value' <= _maxValue
        /\ handed' = _value' - initialValue
        /\ \A t \in Threads :
             (npc[t] = "next_test" /\ npc'[t] = "idle") =>
               /\ returned' = Min(Max(value[t], 1), _maxValue - _value)
               /\ _value = _maxValue => returned' = 0 ]_vars

====
